---- MODULE Spec2Model ----
(***************************************************************************)
(* LoanLink backend: the Express application of src/unnamed/part_000       *)
(* (lines 357-844, the current revision of the server).                    *)
(*                                                                         *)
(* Every inbound request is a slot of reqs that walks through the          *)
(* middleware chain of the source: the connect-if-needed middleware, then  *)
(* verifyJWT for the routes registered with it, then the route handler,    *)
(* one action per awaited store operation.  The store collections are      *)
(* sequences of documents; the identifier of a document is its position,   *)
(* and a deleted document leaves a tombstone so that identifiers are never *)
(* reused (ObjectIds are generated fresh).  A document is a function from  *)
(* field names to values, so that $set is a field-wise merge and a missing *)
(* field is a field outside the document's domain.                         *)
(*                                                                         *)
(* Time is counted in the unit of the token's validity window (days);      *)
(* client.connect() is taken to resolve.                                   *)
(***************************************************************************)
EXTENDS Integers, Sequences, FiniteSets, TLC

VARIABLES clock,          \* the server's clock (Date.now / new Date())
          database,       \* the cached store handle of connectDB is set
          connectCalls,   \* number of client.connect() invocations so far
          boot,           \* the start-up connectDB() call: "connecting" / "done"
          jar,            \* the client's cookie named 'token'
          users, loans, applications, notifications,   \* the collections
          reqs            \* the requests in flight, by slot

vars == <<clock, database, connectCalls, boot, jar,
          users, loans, applications, notifications, reqs>>

store == <<users, loans, applications, notifications>>

-----------------------------------------------------------------------------
(* Bounds of the model *)

NumSlots == 2
MaxClock == 2
MaxApps == 2
MaxUsers == 2
MaxLoans == 2
MaxNotifs == 1
MaxDecisions == 2

Slots == 1..NumSlots
Emails == {"ann@x", "bob@x"}
TxIds == {"tx_1", "tx_2"}

-----------------------------------------------------------------------------
(* Session Token Codec: jwt.sign / jwt.verify with the server secret *)

JWT_SECRET == "server-secret"
ExpiresIn == 7

Sign(payload, key) == <<key, payload.sub, payload.iat, payload.exp>>

NoPayload == [sub |-> "", iat |-> 0, exp |-> 0]
NoCookie == [kind |-> "absent", payload |-> NoPayload, sig |-> Sign(NoPayload, "")]
Garbage == [kind |-> "garbage", payload |-> NoPayload, sig |-> Sign(NoPayload, "")]

\* jwt.sign(user, JWT_SECRET, {expiresIn: '7d'}) at instant now
JwtSign(user, now) ==
  LET payload == [sub |-> user, iat |-> now, exp |-> now + ExpiresIn]
  IN  [kind |-> "jwt", payload |-> payload, sig |-> Sign(payload, JWT_SECRET)]

\* faulty variant: the expiry is not checked (ignoreExpiration)
JwtVerify_NoExpiry(token, now) ==
  /\ token.kind = "jwt"
  /\ token.sig = Sign(token.payload, JWT_SECRET)

\* jwt.verify(token, JWT_SECRET, cb) at instant now: err is set on a malformed
\* token, a signature mismatch, or now >= exp
JwtVerify(token, now) ==
  /\ token.kind = "jwt"
  /\ token.sig = Sign(token.payload, JWT_SECRET)
  /\ now < token.payload.exp

\* what a client can do to the token it holds
Tampered(token) ==
  IF token.kind = "jwt"
  THEN {[token EXCEPT !.payload.exp = @ + ExpiresIn],
        [token EXCEPT !.payload.sub = "root@x"]}
  ELSE {}

Forged(now) ==
  LET payload == [sub |-> "root@x", iat |-> now, exp |-> now + ExpiresIn]
  IN  [kind |-> "jwt", payload |-> payload, sig |-> Sign(payload, "guess")]

-----------------------------------------------------------------------------
(* Resource store: documents and the operations of a collection *)

Tombstone == [deleted |-> TRUE]
Null == [null |-> TRUE]

Has(doc, field) == field \in DOMAIN doc
IsLive(doc) == ~Has(doc, "deleted")

Matches(coll, id) == id \in 1..Len(coll) /\ IsLive(coll[id])

\* collection.findOne({_id})
FindOne(coll, id) == IF Matches(coll, id) THEN coll[id] ELSE Null

\* {$set: updates} applied to one document
SetFields(doc, updates) == updates @@ doc

\* faulty variant: updateOne called with {upsert: true}
UpdateOne_Upsert(coll, id, updates) ==
  IF Matches(coll, id)
  THEN [coll EXCEPT ![id] = SetFields(@, updates)]
  ELSE Append(coll, updates)

\* faulty variant: a document whose status is approved or rejected is final
UpdateOne_TerminalFinal(coll, id, updates) ==
  IF Matches(coll, id) /\ ~(Has(coll[id], "status")
                              /\ coll[id].status \in {"approved", "rejected"})
  THEN [coll EXCEPT ![id] = SetFields(@, updates)]
  ELSE coll

\* collection.updateOne({_id}, {$set: updates}): the collection afterwards
UpdateOne(coll, id, updates) ==
  IF Matches(coll, id)
  THEN [coll EXCEPT ![id] = SetFields(@, updates)]
  ELSE coll

\* ... and its UpdateResult
UpdateResult(coll, id, updates) ==
  [matchedCount |-> IF Matches(coll, id) THEN 1 ELSE 0,
   modifiedCount |-> IF Matches(coll, id) /\ SetFields(coll[id], updates) # coll[id]
                     THEN 1 ELSE 0]

\* collection.insertOne(doc)
InsertOne(coll, doc) == Append(coll, doc)
InsertResult(coll) == [insertedId |-> Len(coll) + 1]

\* collection.find({}).toArray()
FindAll(coll) == SelectSeq(coll, IsLive)

\* faulty variant: the lookup uses a field the documents do not carry
FindByEmail_WrongField(coll, email) == Null

\* collection.findOne({email})
FindByEmail(coll, email) ==
  LET hits == {i \in 1..Len(coll) :
                 IsLive(coll[i]) /\ Has(coll[i], "email") /\ coll[i].email = email}
  IN  IF hits = {} THEN Null
      ELSE coll[CHOOSE i \in hits : \A j \in hits : i <= j]

\* collection.insertMany(docs)
InsertMany(coll, docs) == coll \o docs

\* faulty variant: the filter of the bulk update does not name the owner
UnreadOf_AnyOwner(doc, email) ==
  IsLive(doc) /\ Has(doc, "read") /\ doc.read = FALSE

\* the filter {userEmail: email, read: false}
UnreadOf(doc, email) ==
  /\ IsLive(doc)
  /\ Has(doc, "userEmail") /\ doc.userEmail = email
  /\ Has(doc, "read") /\ doc.read = FALSE

\* collection.updateMany({userEmail: email, read: false}, {$set: updates})
UpdateMany(coll, email, updates) ==
  [i \in 1..Len(coll) |->
     IF UnreadOf(coll[i], email) THEN SetFields(coll[i], updates) ELSE coll[i]]

\* ... and its UpdateResult
UpdateManyResult(coll, email, updates) ==
  [matchedCount |-> Cardinality({i \in 1..Len(coll) : UnreadOf(coll[i], email)}),
   modifiedCount |->
     Cardinality({i \in 1..Len(coll) :
                    UnreadOf(coll[i], email)
                      /\ SetFields(coll[i], updates) # coll[i]})]

\* collection.deleteOne({_id})
DeleteOne(coll, id) ==
  IF Matches(coll, id) THEN [coll EXCEPT ![id] = Tombstone] ELSE coll
DeleteResult(coll, id) == [deletedCount |-> IF Matches(coll, id) THEN 1 ELSE 0]

-----------------------------------------------------------------------------
(* Requests *)

NoResp == [code |-> 0, body |-> Null]
Unauthorized == [code |-> 401, body |-> [message |-> "Unauthorized access"]]
Ok(body) == [code |-> 200, body |-> body]

\* the routes registered with verifyJWT
Protected ==
  {"createLoan", "updateApplication", "createApplication", "cancelApplication",
   "confirmPayment", "markRead", "markAllRead"}

IdleReq ==
  [pc |-> "idle", route |-> "none", cookie |-> NoCookie, id |-> 0, body |-> Null,
   callTime |-> 0, stamp |-> 0, result |-> Null, doc |-> Null,
   resp |-> NoResp, ran |-> FALSE, caught |-> FALSE,
   pre |-> [users |-> <<>>, loans |-> <<>>, applications |-> <<>>,
            notifications |-> <<>>]]

Finished(q) == q.pc \in {"idle", "done", "rejected"}
Quiet == \A s \in Slots : Finished(reqs[s])

\* A request arrives in slot r; the slots of answered requests are released.
\* callTime and pre record the instant and the store contents of the call.
Receive(r, route, cookie, id, body) ==
  /\ Finished(reqs[r])
  /\ reqs' = [s \in Slots |->
               IF s = r
               THEN [IdleReq EXCEPT !.pc = "connect", !.route = route,
                       !.cookie = cookie, !.id = id, !.body = body,
                       !.callTime = clock,
                       !.pre = [users |-> users, loans |-> loans,
                                applications |-> applications,
                                notifications |-> notifications]]
               ELSE IF Finished(reqs[s]) THEN IdleReq ELSE reqs[s]]
  /\ UNCHANGED <<clock, database, connectCalls, boot, jar, store>>

\* the cookies a client may attach: none, the one it holds, a tampered copy of
\* it, a token signed with another key, a string that is no token
Cookies == {NoCookie, jar, Forged(clock), Garbage} \cup Tampered(jar)

\* the stage after the connect-if-needed middleware called next(): verifyJWT
\* on the routes registered with it, the handler itself on the others
AfterConnect(route) == IF route \in Protected THEN "auth" ELSE "handler"

\* the request q after the connect-if-needed middleware called next()
Connected(q, now) ==
  [q EXCEPT !.pc = AfterConnect(q.route), !.stamp = now,
            !.ran = (q.route \notin Protected)]

\* time passes
Advance(d, limit) ==
  /\ clock + d <= limit
  /\ clock' = clock + d
  /\ UNCHANGED <<database, connectCalls, boot, jar, store, reqs>>

Tick == Advance(1, MaxClock)

-----------------------------------------------------------------------------
(* connectDB and the middleware that awaits it *)

\* the start-up call connectDB(): client.connect() resolves
BootConnected ==
  /\ boot = "connecting"
  /\ boot' = "done"
  /\ database' = TRUE
  /\ UNCHANGED <<clock, connectCalls, jar, store, reqs>>

\* middleware: connectDB() finds the cached handle and next() is called
ConnectCached(r) ==
  /\ reqs[r].pc = "connect"
  /\ database
  /\ reqs' = [reqs EXCEPT ![r] = Connected(@, clock)]
  /\ UNCHANGED <<clock, database, connectCalls, boot, jar, store>>

\* faulty variant: connectDB() connects without looking at the cached handle
ConnectCall_Uncached(r) ==
  /\ reqs[r].pc = "connect"
  /\ connectCalls' = connectCalls + 1
  /\ reqs' = [reqs EXCEPT ![r].pc = "connecting"]
  /\ UNCHANGED <<clock, database, boot, jar, store>>

\* middleware: connectDB() finds no handle and invokes client.connect()
ConnectCall(r) ==
  /\ reqs[r].pc = "connect"
  /\ ~database
  /\ connectCalls' = connectCalls + 1
  /\ reqs' = [reqs EXCEPT ![r].pc = "connecting"]
  /\ UNCHANGED <<clock, database, boot, jar, store>>

\* ... client.connect() resolves, the handles are stored, next() is called
ConnectResolved(r) ==
  /\ reqs[r].pc = "connecting"
  /\ database' = TRUE
  /\ reqs' = [reqs EXCEPT ![r] = Connected(@, clock)]
  /\ UNCHANGED <<clock, connectCalls, boot, jar, store>>

ConnectDB(r) == ConnectCached(r) \/ ConnectCall(r) \/ ConnectResolved(r)

-----------------------------------------------------------------------------
(* verifyJWT *)

\* the outcome of the middleware for the request q at instant now
VerifyOutcome(q, now) ==
  IF q.cookie.kind = "absent" THEN "reject"
  ELSE IF ~JwtVerify(q.cookie, now) THEN "reject"
  ELSE "next"

\* stamp is the instant at which the middleware ran; on next() the handler
\* starts at that instant (ran)
VerifyJWT(r) ==
  /\ reqs[r].pc = "auth"
  /\ IF VerifyOutcome(reqs[r], clock) = "next"
     THEN reqs' = [reqs EXCEPT ![r].pc = "handler", ![r].stamp = clock,
                               ![r].ran = TRUE]
     ELSE reqs' = [reqs EXCEPT ![r].pc = "done", ![r].resp = Unauthorized,
                               ![r].stamp = clock]
  /\ UNCHANGED <<clock, database, connectCalls, boot, jar, store>>

\* app.post('/jwt'): sign the body, set the cookie
Jwt(r) ==
  /\ reqs[r].pc = "handler"
  /\ reqs[r].route = "jwt"
  /\ jar' = JwtSign(reqs[r].body, clock)
  /\ reqs' = [reqs EXCEPT ![r].pc = "done",
                          ![r].resp = Ok([success |-> TRUE])]
  /\ UNCHANGED <<clock, database, connectCalls, boot, store>>

-----------------------------------------------------------------------------
(* Application Lifecycle Manager and Payment Confirmation Linker *)

\* a JavaScript truthiness test of updates.<field> on a string field
Truthy(doc, field) == Has(doc, field) /\ doc[field] # ""

\* faulty variant: the type is success whenever a status is given
DecisionNotification_AnySuccess(application, updates, now) ==
  [userEmail |-> application.userEmail,
   message |-> <<"Your loan application for", application.loanTitle,
                 "has been", updates.status>>,
   type |-> IF updates.status # "" THEN "success" ELSE "error",
   timestamp |-> now,
   read |-> FALSE]

\* the notification of app.patch('/applications/:id')
DecisionNotification(application, updates, now) ==
  [userEmail |-> application.userEmail,
   message |-> <<"Your loan application for", application.loanTitle,
                 "has been", updates.status>>,
   type |-> IF updates.status = "approved" THEN "success" ELSE "error",
   timestamp |-> now,
   read |-> FALSE]

\* whether the handler goes on to notify after the status write
NotifyAfterUpdate(result, updates) ==
  result.modifiedCount > 0 /\ Truthy(updates, "status")

\* app.post('/applications'): the body is inserted as it is
CreateApplication(r) ==
  /\ reqs[r].pc = "handler"
  /\ reqs[r].route = "createApplication"
  /\ applications' = InsertOne(applications, reqs[r].body)
  /\ reqs' = [reqs EXCEPT ![r].pc = "done",
                          ![r].result = InsertResult(applications),
                          ![r].resp = Ok(InsertResult(applications))]
  /\ UNCHANGED <<clock, database, connectCalls, boot, jar, users, loans,
                 notifications>>

\* app.patch('/applications/:id'), first await: updateOne(filter, {$set: body})
UpdateApplication(r) ==
  /\ reqs[r].pc = "handler"
  /\ reqs[r].route = "updateApplication"
  /\ LET q == reqs[r]
         result == UpdateResult(applications, q.id, q.body)
     IN  /\ applications' = UpdateOne(applications, q.id, q.body)
         /\ IF NotifyAfterUpdate(result, q.body)
            THEN reqs' = [reqs EXCEPT ![r].pc = "findApplication",
                                      ![r].result = result]
            ELSE reqs' = [reqs EXCEPT ![r].pc = "done",
                                      ![r].result = result,
                                      ![r].resp = Ok(result)]
  /\ UNCHANGED <<clock, database, connectCalls, boot, jar, users, loans,
                 notifications>>

\* ... second await: findOne(filter), then the notification is built
FindApplication(r) ==
  /\ reqs[r].pc = "findApplication"
  /\ LET q == reqs[r]
         application == FindOne(applications, q.id)
     IN  IF IsLive(application) /\ ~Has(application, "null")
         THEN reqs' = [reqs EXCEPT ![r].pc = "insertNotification",
                         ![r].doc = DecisionNotification(application, q.body, clock)]
         ELSE reqs' = [reqs EXCEPT ![r].pc = "done", ![r].resp = Ok(q.result)]
  /\ UNCHANGED <<clock, database, connectCalls, boot, jar, store>>

\* ... third await: insertOne(notification) resolves, res.send(result)
InsertNotification(r) ==
  /\ reqs[r].pc = "insertNotification"
  /\ notifications' = InsertOne(notifications, reqs[r].doc)
  /\ reqs' = [reqs EXCEPT ![r].pc = "done", ![r].resp = Ok(reqs[r].result)]
  /\ UNCHANGED <<clock, database, connectCalls, boot, jar, users, loans,
                 applications>>

\* ... third await: insertOne(notification) rejects; nothing catches it, the
\* handler's promise rejects and res.send(result) is never reached
InsertNotificationFails(r) ==
  /\ reqs[r].pc = "insertNotification"
  /\ reqs' = [reqs EXCEPT ![r].pc = "rejected"]
  /\ UNCHANGED <<clock, database, connectCalls, boot, jar, store>>

\* app.delete('/applications/:id')
CancelApplication(r) ==
  /\ reqs[r].pc = "handler"
  /\ reqs[r].route = "cancelApplication"
  /\ LET q == reqs[r]
         result == DeleteResult(applications, q.id)
     IN  /\ applications' = DeleteOne(applications, q.id)
         /\ reqs' = [reqs EXCEPT ![r].pc = "done", ![r].result = result,
                                 ![r].resp = Ok(result)]
  /\ UNCHANGED <<clock, database, connectCalls, boot, jar, users, loans,
                 notifications>>

\* faulty variant: the confirmation also approves the application
PaymentUpdate_Approves(body, now) ==
  [feeStatus |-> "paid", transactionId |-> body.transactionId, paidAt |-> now,
   status |-> "approved"]

\* the $set document of app.patch('/payments/success/:loanId'); now is the
\* value of new Date() when the handler starts
PaymentUpdate(body, now) ==
  [feeStatus |-> "paid", transactionId |-> body.transactionId, paidAt |-> now]

\* app.patch('/payments/success/:loanId')
ConfirmPayment(r) ==
  /\ reqs[r].pc = "handler"
  /\ reqs[r].route = "confirmPayment"
  /\ LET q == reqs[r]
         updates == PaymentUpdate(q.body, q.stamp)
         result == UpdateResult(applications, q.id, updates)
     IN  /\ applications' = UpdateOne(applications, q.id, updates)
         /\ reqs' = [reqs EXCEPT ![r].pc = "done", ![r].result = result,
                                 ![r].resp = Ok(result)]
  /\ UNCHANGED <<clock, database, connectCalls, boot, jar, users, loans,
                 notifications>>

-----------------------------------------------------------------------------
(* Users *)

AlreadyExists == [message |-> "User already exists"]

\* app.post('/users'), first await: findOne({email: user.email})
FindUser(r) ==
  /\ reqs[r].pc = "handler"
  /\ reqs[r].route = "createUser"
  /\ LET existingUser == FindByEmail(users, reqs[r].body.email)
     IN  IF ~Has(existingUser, "null")
         THEN reqs' = [reqs EXCEPT ![r].pc = "done", ![r].resp = Ok(AlreadyExists)]
         ELSE reqs' = [reqs EXCEPT ![r].pc = "insertUser"]
  /\ UNCHANGED <<clock, database, connectCalls, boot, jar, store>>

\* ... second await: insertOne(user)
InsertUser(r) ==
  /\ reqs[r].pc = "insertUser"
  /\ users' = InsertOne(users, reqs[r].body)
  /\ reqs' = [reqs EXCEPT ![r].pc = "done", ![r].result = InsertResult(users),
                          ![r].resp = Ok(InsertResult(users))]
  /\ UNCHANGED <<clock, database, connectCalls, boot, jar, loans, applications,
                 notifications>>

-----------------------------------------------------------------------------
(* Loan creation and the broadcast to all users *)

\* loan.title || 'Check it out!'
TitleOrDefault(loan) == IF Truthy(loan, "title") THEN loan.title ELSE "Check it out!"

\* faulty variant: the path is built from the request body, which carries no _id
LoanNotifications_BodyId(allUsers, loan, insertedId, now) ==
  [i \in 1..Len(allUsers) |->
     [userEmail |-> allUsers[i].email,
      message |-> <<"New Loan Available:", TitleOrDefault(loan)>>,
      type |-> "info",
      path |-> <<"/loans/", 0>>,
      timestamp |-> now,
      read |-> FALSE]]

\* allUsers.map(u => ({...})) of app.post('/loans')
LoanNotifications(allUsers, loan, insertedId, now) ==
  [i \in 1..Len(allUsers) |->
     [userEmail |-> allUsers[i].email,
      message |-> <<"New Loan Available:", TitleOrDefault(loan)>>,
      type |-> "info",
      path |-> <<"/loans/", insertedId>>,
      timestamp |-> now,
      read |-> FALSE]]

\* app.post('/loans'), first await: insertOne(loan); the broadcast is entered
\* when result.insertedId is set
InsertLoan(r) ==
  /\ reqs[r].pc = "handler"
  /\ reqs[r].route = "createLoan"
  /\ LET result == InsertResult(loans)
     IN  /\ loans' = InsertOne(loans, reqs[r].body)
         /\ IF result.insertedId # 0
            THEN reqs' = [reqs EXCEPT ![r].pc = "findUsers", ![r].result = result]
            ELSE reqs' = [reqs EXCEPT ![r].pc = "done", ![r].result = result,
                                      ![r].resp = Ok(result)]
  /\ UNCHANGED <<clock, database, connectCalls, boot, jar, users, applications,
                 notifications>>

\* ... second await: usersCollection.find({}, {projection}).toArray(), then
\* the notifications are built if there is any user
FindUsers(r) ==
  /\ reqs[r].pc = "findUsers"
  /\ LET q == reqs[r]
         allUsers == FindAll(users)
     IN  IF Len(allUsers) > 0
         THEN reqs' = [reqs EXCEPT ![r].pc = "insertMany",
                         ![r].doc = LoanNotifications(allUsers, q.body,
                                                      q.result.insertedId, clock)]
         ELSE reqs' = [reqs EXCEPT ![r].pc = "done", ![r].resp = Ok(q.result)]
  /\ UNCHANGED <<clock, database, connectCalls, boot, jar, store>>

\* ... the read of the users rejects: caught and logged, res.send(result)
FindUsersFails(r) ==
  /\ reqs[r].pc = "findUsers"
  /\ reqs' = [reqs EXCEPT ![r].pc = "done", ![r].caught = TRUE,
                          ![r].resp = Ok(reqs[r].result)]
  /\ UNCHANGED <<clock, database, connectCalls, boot, jar, store>>

\* ... third await: insertMany(notifications) resolves, res.send(result)
InsertNotifications(r) ==
  /\ reqs[r].pc = "insertMany"
  /\ notifications' = InsertMany(notifications, reqs[r].doc)
  /\ reqs' = [reqs EXCEPT ![r].pc = "done", ![r].resp = Ok(reqs[r].result)]
  /\ UNCHANGED <<clock, database, connectCalls, boot, jar, users, loans,
                 applications>>

\* faulty variant: the broadcast is not wrapped in try/catch
InsertManyFails_Uncaught(r) ==
  /\ reqs[r].pc = "insertMany"
  /\ \E k \in 0..(Len(reqs[r].doc) - 1) :
       notifications' = InsertMany(notifications, SubSeq(reqs[r].doc, 1, k))
  /\ reqs' = [reqs EXCEPT ![r].pc = "rejected", ![r].caught = TRUE]
  /\ UNCHANGED <<clock, database, connectCalls, boot, jar, users, loans,
                 applications>>

\* ... insertMany(notifications) rejects after the documents before the
\* failing one were written (an ordered bulk insert): caught and logged,
\* res.send(result)
InsertManyFails(r) ==
  /\ reqs[r].pc = "insertMany"
  /\ \E k \in 0..(Len(reqs[r].doc) - 1) :
       notifications' = InsertMany(notifications, SubSeq(reqs[r].doc, 1, k))
  /\ reqs' = [reqs EXCEPT ![r].pc = "done", ![r].caught = TRUE,
                          ![r].resp = Ok(reqs[r].result)]
  /\ UNCHANGED <<clock, database, connectCalls, boot, jar, users, loans,
                 applications>>

-----------------------------------------------------------------------------
(* Notifications of a user *)

\* the $set document of both routes
ReadUpdate == [read |-> TRUE]

\* app.patch('/notifications/mark-read/:id')
MarkRead(r) ==
  /\ reqs[r].pc = "handler"
  /\ reqs[r].route = "markRead"
  /\ LET q == reqs[r]
         result == UpdateResult(notifications, q.id, ReadUpdate)
     IN  /\ notifications' = UpdateOne(notifications, q.id, ReadUpdate)
         /\ reqs' = [reqs EXCEPT ![r].pc = "done", ![r].result = result,
                                 ![r].resp = Ok(result)]
  /\ UNCHANGED <<clock, database, connectCalls, boot, jar, users, loans,
                 applications>>

\* app.patch('/notifications/mark-all-read/:email')
MarkAllRead(r) ==
  /\ reqs[r].pc = "handler"
  /\ reqs[r].route = "markAllRead"
  /\ LET q == reqs[r]
         result == UpdateManyResult(notifications, q.body.email, ReadUpdate)
     IN  /\ notifications' = UpdateMany(notifications, q.body.email, ReadUpdate)
         /\ reqs' = [reqs EXCEPT ![r].pc = "done", ![r].result = result,
                                 ![r].resp = Ok(result)]
  /\ UNCHANGED <<clock, database, connectCalls, boot, jar, users, loans,
                 applications>>

-----------------------------------------------------------------------------
(* The requests a client sends *)

\* the cookie of a well-behaved client: the one it holds, or none
HeldCookies == {NoCookie, jar}

AppIds == 1..MaxApps

CallJwt(r, identities) ==
  \E e \in identities : Receive(r, "jwt", NoCookie, 0, e)

CallCreateApplication(r, cookies, bodies) ==
  \E c \in cookies, b \in bodies :
    /\ Len(applications) < MaxApps
    /\ Receive(r, "createApplication", c, 0, b)

CallUpdateApplication(r, cookies, bodies) ==
  \E c \in cookies, id \in AppIds, b \in bodies :
    /\ Len(notifications) < MaxNotifs
    /\ Receive(r, "updateApplication", c, id, b)

\* a status update by a client that decides again on decided applications
CallRedecide(r, cookies, bodies) ==
  \E c \in cookies, id \in AppIds, b \in bodies :
    /\ Len(notifications) < MaxDecisions
    /\ Receive(r, "updateApplication", c, id, b)

CallCancelApplication(r, cookies) ==
  \E c \in cookies, id \in AppIds : Receive(r, "cancelApplication", c, id, Null)

CallConfirmPayment(r, cookies, bodies) ==
  \E c \in cookies, id \in AppIds, b \in bodies :
    Receive(r, "confirmPayment", c, id, b)

CallCreateUser(r, bodies) ==
  \E b \in bodies :
    /\ Len(users) < MaxUsers \/ ~Has(FindByEmail(users, b.email), "null")
    /\ Receive(r, "createUser", NoCookie, 0, b)

CallCreateLoan(r, cookies, bodies) ==
  \E c \in cookies, b \in bodies :
    /\ Len(loans) < MaxLoans
    /\ Receive(r, "createLoan", c, 0, b)

\* the ids a client marks: those of the notifications there are, and one
\* that matches nothing
CallMarkRead(r, cookies) ==
  \E c \in cookies, id \in 1..(Len(notifications) + 1) :
    Receive(r, "markRead", c, id, Null)

CallMarkAllRead(r, cookies, emails) ==
  \E c \in cookies, e \in emails :
    Receive(r, "markAllRead", c, 0, [email |-> e])

-----------------------------------------------------------------------------
(* Specifications *)

Init ==
  /\ clock = 0
  /\ database = FALSE
  /\ connectCalls = 1
  /\ boot = "connecting"
  /\ jar = NoCookie
  /\ users = <<>>
  /\ loans = <<>>
  /\ applications = <<>>
  /\ notifications = <<>>
  /\ reqs = [s \in Slots |-> IdleReq]

\* the slot of the specifications that serve one request at a time
Serial == 1

PendingBodies ==
  {[userEmail |-> e, loanTitle |-> "Home Loan", status |-> "pending",
    feeStatus |-> "unpaid"] : e \in Emails}

DecisionBodies == {[status |-> s] : s \in {"approved", "rejected", ""}}

\* Decisions on submitted applications: one request at a time, the store
\* always answering, the client submitting pending applications
NextDecision ==
  \/ BootConnected
  \/ Quiet /\ CallJwt(Serial, {"ann@x"})
  \/ Quiet /\ CallCreateApplication(Serial, HeldCookies, PendingBodies)
  \/ Quiet /\ CallUpdateApplication(Serial, HeldCookies, DecisionBodies)
  \/ Quiet /\ CallCancelApplication(Serial, HeldCookies)
  \/ ConnectDB(Serial)
  \/ VerifyJWT(Serial)
  \/ Jwt(Serial)
  \/ CreateApplication(Serial)
  \/ UpdateApplication(Serial)
  \/ FindApplication(Serial)
  \/ InsertNotification(Serial)
  \/ CancelApplication(Serial)

SpecDecision == Init /\ [][NextDecision]_vars

\* ... the same, with the store allowed to fail the notification insert
NextDecisionFault ==
  \/ NextDecision
  \/ InsertNotificationFails(Serial)

SpecDecisionFault == Init /\ [][NextDecisionFault]_vars

IntakeBodies ==
  {[userEmail |-> "ann@x", loanTitle |-> "Home Loan", status |-> s,
    feeStatus |-> f] : s \in {"pending", "approved"}, f \in {"unpaid", "paid"}}
  \cup {[userEmail |-> "ann@x", loanTitle |-> "Home Loan"]}

GenericBodies == {[status |-> "approved"], [feeStatus |-> "paid"]}

\* Submission and generic update with the bodies a client is free to send;
\* the payment confirmation route is never called
NextIntake ==
  \/ BootConnected
  \/ Quiet /\ CallJwt(Serial, {"ann@x"})
  \/ Quiet /\ CallCreateApplication(Serial, HeldCookies, IntakeBodies)
  \/ Quiet /\ CallUpdateApplication(Serial, HeldCookies, GenericBodies)
  \/ ConnectDB(Serial)
  \/ VerifyJWT(Serial)
  \/ Jwt(Serial)
  \/ CreateApplication(Serial)
  \/ UpdateApplication(Serial)
  \/ FindApplication(Serial)
  \/ InsertNotification(Serial)

SpecIntake == Init /\ [][NextIntake]_vars

PaymentBodies == {[transactionId |-> t] : t \in TxIds}

UnpaidBodies ==
  {[userEmail |-> "ann@x", loanTitle |-> "Home Loan", status |-> "pending",
    feeStatus |-> "unpaid"]}

\* Payment confirmation on submitted applications, while time passes
NextPayment ==
  \/ Tick
  \/ BootConnected
  \/ Quiet /\ CallJwt(Serial, {"ann@x"})
  \/ Quiet /\ CallCreateApplication(Serial, HeldCookies, UnpaidBodies)
  \/ Quiet /\ CallConfirmPayment(Serial, HeldCookies, PaymentBodies)
  \/ ConnectDB(Serial)
  \/ VerifyJWT(Serial)
  \/ Jwt(Serial)
  \/ CreateApplication(Serial)
  \/ ConfirmPayment(Serial)

SpecPayment == Init /\ [][NextPayment]_vars

UserBodies == {[email |-> e, name |-> n] : e \in Emails, n \in {"Ann", "Bob"}}

LoanBodies == {[title |-> "Home Loan"], [category |-> "Home"]}

\* Sign-up and loan creation, one request at a time, the store always
\* answering
NextLoans ==
  \/ BootConnected
  \/ Quiet /\ CallJwt(Serial, {"ann@x"})
  \/ Quiet /\ CallCreateUser(Serial, UserBodies)
  \/ Quiet /\ CallCreateLoan(Serial, HeldCookies, LoanBodies)
  \/ ConnectDB(Serial)
  \/ VerifyJWT(Serial)
  \/ Jwt(Serial)
  \/ FindUser(Serial)
  \/ InsertUser(Serial)
  \/ InsertLoan(Serial)
  \/ FindUsers(Serial)
  \/ InsertNotifications(Serial)

SpecLoans == Init /\ [][NextLoans]_vars

\* ... the same, with the store allowed to fail the broadcast's operations
NextLoansFault ==
  \/ NextLoans
  \/ FindUsersFails(Serial)
  \/ InsertManyFails(Serial)

SpecLoansFault == Init /\ [][NextLoansFault]_vars

\* the steps by which time passes in the session specification
Steps == {1, ExpiresIn - 1}

\* Sessions: tokens are issued, time passes beyond their validity window, and
\* a protected route is called with every cookie a client can make up
NextSession ==
  \/ \E d \in Steps : Advance(d, ExpiresIn + MaxClock)
  \/ BootConnected
  \/ Quiet /\ CallJwt(Serial, Emails)
  \/ Quiet /\ CallCreateApplication(Serial, Cookies, UnpaidBodies)
  \/ ConnectDB(Serial)
  \/ VerifyJWT(Serial)
  \/ Jwt(Serial)
  \/ CreateApplication(Serial)

SpecSession == Init /\ [][NextSession]_vars

StatusBodies == {[status |-> s] : s \in {"approved", "rejected", "pending"}}

\* Successive status updates of the same applications: one request at a
\* time, every status sent to applications in every status
NextTransitions ==
  \/ BootConnected
  \/ Quiet /\ CallJwt(Serial, {"ann@x"})
  \/ Quiet /\ CallCreateApplication(Serial, {jar}, UnpaidBodies)
  \/ Quiet /\ CallRedecide(Serial, {jar}, StatusBodies)
  \/ ConnectDB(Serial)
  \/ VerifyJWT(Serial)
  \/ Jwt(Serial)
  \/ CreateApplication(Serial)
  \/ UpdateApplication(Serial)
  \/ FindApplication(Serial)
  \/ InsertNotification(Serial)

SpecTransitions == Init /\ [][NextTransitions]_vars

InboxUsers == {[email |-> e, name |-> "Ann"] : e \in Emails}

InboxLoans == {[title |-> "Home Loan"]}

\* Inboxes: users sign up, loans are broadcast to them, and the notifications
\* are marked read one by one and per owner, one request at a time
NextInbox ==
  \/ BootConnected
  \/ Quiet /\ CallJwt(Serial, {"ann@x"})
  \/ Quiet /\ CallCreateUser(Serial, InboxUsers)
  \/ Quiet /\ CallCreateLoan(Serial, {jar}, InboxLoans)
  \/ Quiet /\ CallMarkRead(Serial, {jar})
  \/ Quiet /\ CallMarkAllRead(Serial, {jar}, Emails)
  \/ ConnectDB(Serial)
  \/ VerifyJWT(Serial)
  \/ Jwt(Serial)
  \/ FindUser(Serial)
  \/ InsertUser(Serial)
  \/ InsertLoan(Serial)
  \/ FindUsers(Serial)
  \/ InsertNotifications(Serial)
  \/ MarkRead(Serial)
  \/ MarkAllRead(Serial)

SpecInbox == Init /\ [][NextInbox]_vars

\* Cold start: the start-up connectDB() is in flight while requests arrive
\* in every slot, their middleware and handlers interleaved in every order
NextConnect ==
  \/ BootConnected
  \/ \E r \in Slots : CallJwt(r, Emails)
  \/ \E r \in Slots : ConnectDB(r)
  \/ \E r \in Slots : Jwt(r)

SpecConnect == Init /\ [][NextConnect]_vars

\* Concurrent sign-ups: createUser requests arrive in every slot and their
\* awaited store operations interleave in every order
NextSignup ==
  \/ BootConnected
  \/ \E r \in Slots : CallCreateUser(r, InboxUsers)
  \/ \E r \in Slots : ConnectDB(r)
  \/ \E r \in Slots : FindUser(r)
  \/ \E r \in Slots : InsertUser(r)

SpecSignup == Init /\ [][NextSignup]_vars

VerdictBodies == {[status |-> s] : s \in {"approved", "rejected"}}

\* Decisions racing with cancellations: the client signs in and submits
\* while nothing else is being served; decisions and cancellations arrive in
\* every slot and their awaited store operations interleave in every order
NextRace ==
  \/ BootConnected
  \/ Quiet /\ CallJwt(Serial, {"ann@x"})
  \/ Quiet /\ CallCreateApplication(Serial, {jar}, UnpaidBodies)
  \/ \E r \in Slots : CallUpdateApplication(r, {jar}, VerdictBodies)
  \/ \E r \in Slots : CallCancelApplication(r, {jar})
  \/ \E r \in Slots : ConnectDB(r)
  \/ \E r \in Slots : VerifyJWT(r)
  \/ \E r \in Slots : Jwt(r)
  \/ \E r \in Slots : CreateApplication(r)
  \/ \E r \in Slots : UpdateApplication(r)
  \/ \E r \in Slots : FindApplication(r)
  \/ \E r \in Slots : InsertNotification(r)
  \/ \E r \in Slots : CancelApplication(r)

SpecRace == Init /\ [][NextRace]_vars

-----------------------------------------------------------------------------
(* Claims *)

\* the request of slot r was answered by its handler for the given route
Answered(r, route) ==
  /\ reqs[r].pc = "done"
  /\ reqs[r].route = route
  /\ reqs[r].ran

\* the request of slot r is a status decision s on an application that was
\* pending when the call was made
DecidesPending(r, s) ==
  /\ Answered(r, "updateApplication")
  /\ reqs[r].body = [status |-> s]
  /\ Matches(reqs[r].pre.applications, reqs[r].id)
  /\ reqs[r].pre.applications[reqs[r].id].status = "pending"

\* C1: updateStatus(appId, s) with s approved or rejected on an existing
\* pending application leaves the record with status s and inserts exactly
\* one notification: the notifications collection is the one of the call
\* with one record appended, addressed to the application's userEmail, unread,
\* of type success for approved and error for rejected.
C1_DecisionNotifiesOnce ==
  \A r \in Slots : \A s \in {"approved", "rejected"} :
    DecidesPending(r, s) =>
      LET q == reqs[r]
          n == notifications[Len(notifications)]
      IN  /\ Matches(applications, q.id)
          /\ applications[q.id].status = s
          /\ Len(notifications) = Len(q.pre.notifications) + 1
          /\ SubSeq(notifications, 1, Len(q.pre.notifications)) = q.pre.notifications
          /\ n.userEmail = q.pre.applications[q.id].userEmail
          /\ n.userEmail = applications[q.id].userEmail
          /\ n.read = FALSE
          /\ n.type = (IF s = "approved" THEN "success" ELSE "error")

\* a rejection of the second of two pending applications was answered
C1_Witness ==
  \E r \in Slots :
    /\ DecidesPending(r, "rejected")
    /\ reqs[r].resp.code = 200
    /\ reqs[r].id = 2
    /\ Matches(reqs[r].pre.applications, 1)

\* C2: updateStatus with an id that matches no application is answered with
\* a success carrying a modified count of zero, and leaves the applications
\* and the notifications as they were.
C2_UnknownIdIsNoOp ==
  \A r \in Slots :
    (Answered(r, "updateApplication")
       /\ ~Matches(reqs[r].pre.applications, reqs[r].id)) =>
      /\ reqs[r].resp.code = 200
      /\ reqs[r].resp.body.modifiedCount = 0
      /\ applications = reqs[r].pre.applications
      /\ notifications = reqs[r].pre.notifications

\* an approval addressed to the id of a cancelled application was answered
\* while another application existed
C2_Witness ==
  \E r \in Slots :
    /\ Answered(r, "updateApplication")
    /\ reqs[r].body = [status |-> "approved"]
    /\ reqs[r].id \in 1..Len(reqs[r].pre.applications)
    /\ ~Matches(reqs[r].pre.applications, reqs[r].id)
    /\ \E i \in 1..Len(applications) : IsLive(applications[i])

\* C3: creating a loan while N user records exist appends exactly N
\* notifications, the i-th one addressed to the i-th user's email, of type
\* info, unread, with a path that carries the identifier of the inserted
\* loan; with N = 0 the handler never reaches the bulk insert.
C3_BroadcastOnePerUser ==
  \A r \in Slots :
    /\ Answered(r, "createLoan") =>
         LET q == reqs[r]
             all == FindAll(q.pre.users)
             before == Len(q.pre.notifications)
         IN  /\ Matches(loans, q.result.insertedId)
             /\ loans[q.result.insertedId] = q.body
             /\ Len(notifications) = before + Len(all)
             /\ SubSeq(notifications, 1, before) = q.pre.notifications
             /\ \A i \in 1..Len(all) :
                  LET n == notifications[before + i]
                  IN  /\ n.userEmail = all[i].email
                      /\ n.type = "info"
                      /\ n.read = FALSE
                      /\ n.path = <<"/loans/", q.result.insertedId>>
    /\ (reqs[r].route = "createLoan" /\ reqs[r].pc = "insertMany") =>
         Len(FindAll(reqs[r].pre.users)) > 0

\* a second loan was created while two users with different emails existed
C3_Witness ==
  \E r \in Slots :
    /\ Answered(r, "createLoan")
    /\ reqs[r].result.insertedId = 2
    /\ Len(reqs[r].pre.users) = 2
    /\ reqs[r].pre.users[1].email # reqs[r].pre.users[2].email
    /\ Len(reqs[r].pre.notifications) > 0

\* C4: when the read of the users or the bulk insert fails during loan
\* creation, the loan record stays in the loans collection and the caller
\* receives the insert result of the loan write with a success.
C4_BroadcastFailureKeepsLoan ==
  \A r \in Slots :
    (reqs[r].route = "createLoan" /\ reqs[r].caught) =>
      LET q == reqs[r]
      IN  /\ q.pc = "done"
          /\ q.resp = Ok([insertedId |-> Len(q.pre.loans) + 1])
          /\ Matches(loans, Len(q.pre.loans) + 1)
          /\ loans[Len(q.pre.loans) + 1] = q.body

\* the bulk insert for two users failed after the first notification was
\* written
C4_Witness ==
  \E r \in Slots :
    /\ reqs[r].route = "createLoan"
    /\ reqs[r].caught
    /\ Len(FindAll(users)) = 2
    /\ Len(notifications) = Len(reqs[r].pre.notifications) + 1

\* C5: when the notification insert of an updateStatus call fails, the caller
\* still receives the result of the status write, and the status write stays
\* in place.
C5_InsertFailureSwallowed ==
  \A r \in Slots :
    (reqs[r].route = "updateApplication" /\ reqs[r].pc = "rejected") =>
      /\ reqs[r].resp = Ok(reqs[r].result)
      /\ applications[reqs[r].id].status = reqs[r].body.status

\* the cookie of the request q is a token the server issued to some identity
\* at some instant t, presented less than ExpiresIn after t
PresentsLiveToken(q) ==
  \E e \in Emails \cup {"root@x"} : \E t \in 0..q.stamp :
    q.cookie = JwtSign(e, t) /\ q.stamp < t + ExpiresIn

\* C6: on a route registered with verifyJWT the handler runs if and only if
\* the request's cookie is a token signed by the server and presented before
\* its expiry, 7 days after issuance; otherwise (no cookie, a tampered, forged
\* or malformed token, or a token presented at or after expiry) the response
\* is the one 401 message, the handler is not run and the store is unchanged.
C6_HandlerRunsIffTokenVerifies ==
  \A r \in Slots :
    (reqs[r].route \in Protected
       /\ reqs[r].pc \notin {"idle", "connect", "connecting", "auth"}) =>
      LET q == reqs[r]
      IN  /\ q.ran <=> PresentsLiveToken(q)
          /\ ~PresentsLiveToken(q) =>
               /\ q.pc = "done"
               /\ q.resp = Unauthorized
               /\ users = q.pre.users
               /\ loans = q.pre.loans
               /\ applications = q.pre.applications
               /\ notifications = q.pre.notifications

\* a token was presented exactly at its expiry and refused, an application
\* existing already
C6_Witness ==
  \E r \in Slots : \E e \in Emails : \E t \in 0..MaxClock :
    /\ reqs[r].route = "createApplication"
    /\ reqs[r].pc = "done"
    /\ reqs[r].cookie = JwtSign(e, t)
    /\ reqs[r].stamp = t + ExpiresIn
    /\ reqs[r].resp = Unauthorized
    /\ Len(applications) > 0

\* C7: creating a user with an email for which a user record exists is
\* answered with the "already exists" message and a success status, and the
\* users collection is left as it was.
C7_DuplicateUserIsNoOp ==
  \A r \in Slots :
    (Answered(r, "createUser")
       /\ \E i \in 1..Len(reqs[r].pre.users) :
            reqs[r].pre.users[i].email = reqs[r].body.email) =>
      /\ reqs[r].resp = Ok([message |-> "User already exists"])
      /\ users = reqs[r].pre.users

\* a sign-up with the email of the second of two users, under another name,
\* was answered
C7_Witness ==
  \E r \in Slots :
    /\ Answered(r, "createUser")
    /\ Len(reqs[r].pre.users) = 2
    /\ reqs[r].pre.users[2].email = reqs[r].body.email
    /\ reqs[r].pre.users[2].name # reqs[r].body.name
    /\ reqs[r].pre.users[1].email # reqs[r].body.email

\* C8: no application has feeStatus paid in a run made only of submissions
\* and generic updates (the payment confirmation is never called).
C8_PaidOnlyByConfirmPayment ==
  \A i \in 1..Len(applications) :
    Has(applications[i], "feeStatus") => applications[i].feeStatus # "paid"

\* C9: after confirmPayment(appId, tx) on an existing application the record
\* has feeStatus paid, transactionId tx and paidAt not earlier than the time
\* of the call; its other fields and the other applications are as they were.
C9_PaymentRecorded ==
  \A r \in Slots :
    (Answered(r, "confirmPayment")
       /\ Matches(reqs[r].pre.applications, reqs[r].id)) =>
      LET q == reqs[r]
          old == q.pre.applications[q.id]
          new == applications[q.id]
          set == {"feeStatus", "transactionId", "paidAt"}
      IN  /\ new.feeStatus = "paid"
          /\ new.transactionId = q.body.transactionId
          /\ new.paidAt >= q.callTime
          /\ DOMAIN new = DOMAIN old \cup set
          /\ \A f \in DOMAIN old \ set : new[f] = old[f]
          /\ Len(applications) = Len(q.pre.applications)
          /\ \A i \in 1..Len(applications) :
               i # q.id => applications[i] = q.pre.applications[i]

\* a second confirmation, with another transaction id, of the second of two
\* applications was answered, time having passed during the call
C9_Witness ==
  \E r \in Slots :
    /\ Answered(r, "confirmPayment")
    /\ reqs[r].id = 2
    /\ Matches(reqs[r].pre.applications, 1)
    /\ Matches(reqs[r].pre.applications, 2)
    /\ Has(reqs[r].pre.applications[2], "transactionId")
    /\ reqs[r].pre.applications[2].transactionId # reqs[r].body.transactionId
    /\ applications[2].paidAt > reqs[r].callTime

\* C10: every application created by createApplication has status pending
\* right after its creation.
C10_CreatedPending ==
  \A r \in Slots :
    Answered(r, "createApplication") =>
      LET a == applications[reqs[r].result.insertedId]
      IN  Has(a, "status") /\ a.status = "pending"

\* C11: updateStatus with a non-empty status on an existing application is
\* answered with a success and leaves the record with the status sent,
\* whatever status the record had at the call, approved and rejected
\* included.
C11_AnyTransitionAccepted ==
  \A r \in Slots :
    (Answered(r, "updateApplication")
       /\ Matches(reqs[r].pre.applications, reqs[r].id)
       /\ Truthy(reqs[r].body, "status")) =>
      /\ reqs[r].resp.code = 200
      /\ reqs[r].resp.body.matchedCount = 1
      /\ Matches(applications, reqs[r].id)
      /\ applications[reqs[r].id].status = reqs[r].body.status

\* an approved application was rejected, and the write modified the record
C11_Witness ==
  \E r \in Slots :
    /\ Answered(r, "updateApplication")
    /\ Matches(reqs[r].pre.applications, reqs[r].id)
    /\ reqs[r].pre.applications[reqs[r].id].status = "approved"
    /\ reqs[r].body = [status |-> "rejected"]
    /\ reqs[r].resp.body.modifiedCount = 1
    /\ applications[reqs[r].id].status = "rejected"

\* the notifications of the collection that the email owns and are unread
Unread(coll, email) == {i \in 1..Len(coll) : UnreadOf(coll[i], email)}

\* C12: markRead(id) leaves every other notification as it was and the one
\* it names read; markAllRead(email) leaves the notifications of every other
\* email as they were and those of the email read.  A call that finds the
\* notification, or all the notifications of the email, already read (a
\* second call, no notification having been added meanwhile) reports a
\* modified count of zero and leaves the collection as it was.
C12_MarkingIsIdempotent ==
  \A r \in Slots :
    LET q == reqs[r]
        old == q.pre.notifications
    IN  /\ Answered(r, "markRead") =>
              /\ q.resp.code = 200
              /\ Len(notifications) = Len(old)
              /\ \A i \in 1..Len(old) : i # q.id => notifications[i] = old[i]
              /\ Matches(old, q.id) =>
                    /\ notifications[q.id] = [old[q.id] EXCEPT !.read = TRUE]
                    /\ q.resp.body.modifiedCount = (IF old[q.id].read THEN 0 ELSE 1)
              /\ (Matches(old, q.id) /\ old[q.id].read) =>
                    /\ q.resp.body.modifiedCount = 0
                    /\ notifications = old
        /\ Answered(r, "markAllRead") =>
              /\ q.resp.code = 200
              /\ Len(notifications) = Len(old)
              /\ \A i \in 1..Len(old) :
                    IF old[i].userEmail = q.body.email
                    THEN notifications[i] = [old[i] EXCEPT !.read = TRUE]
                    ELSE notifications[i] = old[i]
              /\ q.resp.body.modifiedCount = Cardinality(Unread(old, q.body.email))
              /\ Unread(old, q.body.email) = {} =>
                    /\ q.resp.body.modifiedCount = 0
                    /\ notifications = old

\* a second markAllRead of an email was answered: the email's notifications
\* had been read already, while another email owned an unread one
C12_Witness ==
  \E r \in Slots :
    LET q == reqs[r]
        old == q.pre.notifications
    IN  /\ Answered(r, "markAllRead")
        /\ q.resp.body.modifiedCount = 0
        /\ \E i \in 1..Len(old) : old[i].userEmail = q.body.email /\ old[i].read
        /\ \E i \in 1..Len(old) : old[i].userEmail # q.body.email /\ ~old[i].read
        /\ notifications = old

\* C13: under every interleaving of the start-up connectDB() and the
\* middleware of concurrent requests, client.connect() is invoked at most
\* once.
C13_ConnectOnce == connectCalls <= 1

\* C13, amended: once a client.connect() has resolved and the handles are
\* cached, they stay cached and no later connectDB() invokes client.connect();
\* before that, the start-up call and every request whose middleware runs
\* invoke it once each.
C13_CachedHandleReused ==
  [][database => (database' /\ connectCalls' = connectCalls)]_vars

\* a request passed the middleware on the cached handle of the start-up
\* call, client.connect() having been invoked once
C13_Witness ==
  \E r \in Slots :
    /\ database
    /\ connectCalls = 1
    /\ reqs[r].route = "jwt"
    /\ reqs[r].pc \in {"handler", "done"}

\* C14: under every interleaving of concurrent createUser calls, no two
\* records of the users collection carry the same email.
C14_OneRecordPerEmail ==
  \A i, j \in 1..Len(users) :
    (IsLive(users[i]) /\ IsLive(users[j]) /\ users[i].email = users[j].email)
      => i = j

\* C15: under every interleaving with concurrent cancelApplication and
\* updateStatus calls, every answered updateStatus call that sent a non-empty
\* status and reports a modified count above zero has inserted a decision
\* notification: the one the handler built is in the collection, addressed
\* to the userEmail of the application and typed by the status of the call.
C15_EveryDecisionNotifies ==
  \A r \in Slots :
    LET q == reqs[r]
    IN  (Answered(r, "updateApplication")
           /\ Truthy(q.body, "status")
           /\ q.resp.body.modifiedCount > 0) =>
          /\ ~Has(q.doc, "null")
          /\ \E i \in 1..Len(notifications) : notifications[i] = q.doc
          /\ Matches(q.pre.applications, q.id) =>
                q.doc.userEmail = q.pre.applications[q.id].userEmail
          /\ q.doc.type = (IF q.body.status = "approved" THEN "success" ELSE "error")

====
